---------------------------- MODULE Spec2Model ----------------------------
(***************************************************************************)
(* TimePick.js: a time-of-day picker bound to one input element.           *)
(*                                                                         *)
(* The sources hold three revisions of the widget:                         *)
(*   "A"  src/time-pick.js lines 51-264   (class, on/triggerEvent)         *)
(*   "B"  src/time-pick.js lines 316-522  (class, initInstance)            *)
(*   "C"  src/unnamed/part_000            (closure, onChange callback)     *)
(* The revision is an input of the model, fixed at construction.           *)
(***************************************************************************)
EXTENDS Integers, Sequences, FiniteSets

VARIABLES
    rev,             \* which revision of the widget runs
    globalBtn,       \* what the free identifier btn of revision A resolves to
    status,          \* "constructed", or "failed" when the constructor threw
    config,          \* {...DEFAULT_OPTIONS, ...options}
    hour,            \* instance.hour        (a JS number)
    minute,          \* instance.minute      (a JS number or undefined)
    totalMinutes,    \* instance.totalMinutes
    buttonActive,    \* instance.buttonActive
    inputValue,      \* the bound element's displayed text
    labelHour,       \* innerText of label_hour_<id>
    labelMinute,     \* innerText of label_minute_<id>
    btnActive,       \* the toggle icon carries the class "active"
    popupDisplay,    \* popup.style.display: "", "flex" or "none"
    overlayDissmiss, \* the popup carries the overlayDissmiss marker
    eventHandlers,   \* event name -> listeners in registration order
    lastOp,          \* the operation that produced this state
    lastArg,         \* its argument
    prev,            \* hour and minute as they were before it
    thrown,          \* the exception it raised, or "none"
    calls,           \* the listener invocations it made, in order
    fired,           \* the notifications it triggered, in order
    before,          \* the total and the toggle/popup state before it
    registered,      \* every (event, callback) passed to on so far
    invalid,         \* the bound element carries the class "invalid"
    confirmButton,   \* the element with id adProgramm, if the page has one
    group,           \* the object a class selector returns, with its members
    observers,       \* how many document click listeners the picker added
    minuteStepped,   \* a minute step happened and no setValue since
    pageIds,         \* the ids randomString gave to the pickers of a page
    earlier          \* the operation before the last one and the time before it

vars == << rev, globalBtn, status, config, hour, minute, totalMinutes,
           buttonActive, inputValue, labelHour, labelMinute, btnActive,
           popupDisplay, overlayDissmiss, eventHandlers, lastOp, lastArg,
           prev, thrown, calls, fired, before, registered, invalid,
           confirmButton, group, observers, minuteStepped, pageIds, earlier >>

-----------------------------------------------------------------------------
(* JavaScript values: numbers are integers or NaN; undefined is kept      *)
(* apart because calling a method on it throws.                           *)

Num(n) == [k |-> "num", v |-> n]
NaN == [k |-> "nan", v |-> 0]
Undefined == [k |-> "undefined", v |-> 0]

IsNum(a) == a.k = "num"

\* a + b: any operand that is not a number makes the sum NaN
JsAdd(a, b) == IF IsNum(a) /\ IsNum(b) THEN Num(a.v + b.v) ELSE NaN

JsSub(a, b) == IF IsNum(a) /\ IsNum(b) THEN Num(a.v - b.v) ELSE NaN

JsMul(a, b) == IF IsNum(a) /\ IsNum(b) THEN Num(a.v * b.v) ELSE NaN

\* a % n: the remainder takes the sign of the dividend
Rem(x, n) == IF x >= 0 THEN x % n ELSE -((-x) % n)

JsRem(a, n) == IF IsNum(a) THEN Num(Rem(a.v, n)) ELSE NaN

\* comparisons with NaN or undefined are false
JsGe(a, n) == IsNum(a) /\ a.v >= n

JsLt(a, n) == IsNum(a) /\ a.v < n

-----------------------------------------------------------------------------
(* Text: a string is a sequence of one-character strings.                 *)

Digits == <<"0", "1", "2", "3", "4", "5", "6", "7", "8", "9">>

DigitSet == {Digits[i] : i \in 1..10}

DigitVal(c) == (CHOOSE i \in 1..10 : Digits[i] = c) - 1

RECURSIVE NatToString(_)
NatToString(n) ==
    IF n < 10 THEN << Digits[n + 1] >>
    ELSE NatToString(n \div 10) \o << Digits[(n % 10) + 1] >>

\* Number.prototype.toString
NumberToString(a) ==
    IF a.k = "nan" THEN <<"N", "a", "N">>
    ELSE IF a.v < 0 THEN <<"-">> \o NatToString(-a.v)
    ELSE NatToString(a.v)

\* String.prototype.padStart(2, '0')
PadStart2(s) ==
    IF Len(s) = 0 THEN <<"0", "0">>
    ELSE IF Len(s) = 1 THEN <<"0">> \o s
    ELSE s

RECURSIVE DecimalValue(_)
DecimalValue(s) ==
    IF Len(s) = 0 THEN 0
    ELSE 10 * DecimalValue(SubSeq(s, 1, Len(s) - 1)) + DigitVal(s[Len(s)])

\* Number(s) on strings of digits and letters: "" is 0, digits are the
\* decimal value, anything else is NaN
ToNumber(s) ==
    IF \A i \in 1..Len(s) : s[i] \in DigitSet THEN Num(DecimalValue(s))
    ELSE NaN

RECURSIVE Split(_)
\* String.prototype.split(":")
Split(s) ==
    IF \A i \in 1..Len(s) : s[i] /= ":" THEN << s >>
    ELSE LET p == CHOOSE i \in 1..Len(s) :
                      s[i] = ":" /\ \A j \in 1..(i - 1) : s[j] /= ":"
         IN << SubSeq(s, 1, p - 1) >> \o Split(SubSeq(s, p + 1, Len(s)))

-----------------------------------------------------------------------------
(* The picker.  An operator takes the instance and page state s (a record  *)
(* of the variables) and returns the state the code leaves behind.        *)

\* static DEFAULT_OPTIONS
DEFAULT_OPTIONS == [step |-> 30, placeholder |-> <<"0", "0", ":", "0", "0">>]

\* an options object without own properties
NoOptions == [key \in {} |-> 0]

\* { ...DEFAULT_OPTIONS, ...options }: own properties of options override
MergeConfig(options) ==
    [key \in DOMAIN DEFAULT_OPTIONS \cup DOMAIN options |->
        IF key \in DOMAIN options THEN options[key] ELSE DEFAULT_OPTIONS[key]]

EventNames == {"change", "dismiss", "show", "custom"}

\* revision A creates the three lists up front and knows no other event;
\* revision C has its single callback slot, read as the change list
KnownEvents(r) ==
    IF r = "A" THEN {"change", "dismiss", "show"}
    ELSE IF r = "B" THEN EventNames
    ELSE {"change"}

\* the callbacks that throw when they are invoked
Throwing == {"LX"}

\* what a listener of event is handed: revision A passes the instance, which
\* has no value; revisions B and C pass an object whose value is the text
Payload(s, event) ==
    [event |-> event, buttonActive |-> s.buttonActive,
     totalMinutes |-> s.totalMinutes,
     value |-> IF s.rev = "A" THEN << >> ELSE s.inputValue]

\* faulty variant: a throwing callback does not stop the ones after it
TriggerEvent_Isolated(s, event) ==
    LET hs == s.eventHandlers[event]
    IN [s EXCEPT !.calls = @ \o [i \in 1..Len(hs) |-> << event, hs[i] >>],
                 !.fired = Append(@, Payload(s, event))]

\* triggerEvent(event): every registered callback, in list order; forEach
\* ends with the first callback that throws, and the exception leaves
\* triggerEvent
TriggerEvent(s, event) ==
    LET hs == s.eventHandlers[event]
        bad == { i \in 1..Len(hs) : hs[i] \in Throwing }
        n == IF bad = {} THEN Len(hs)
             ELSE CHOOSE i \in bad : \A j \in bad : i <= j
    IN [s EXCEPT !.calls = @ \o [i \in 1..n |-> << event, hs[i] >>],
                 !.fired = Append(@, Payload(s, event)),
                 !.thrown = IF bad = {} THEN @ ELSE "ListenerError"]

\* handleTimeUpdate: the two labels and the element's text
UpdateView(s) ==
    LET hrview == PadStart2(NumberToString(s.hour))
        mnview == PadStart2(NumberToString(s.minute))
    IN [s EXCEPT !.labelHour = hrview,
                 !.labelMinute = mnview,
                 !.inputValue = hrview \o <<":">> \o mnview]

\* faulty variant: the total is not recomputed
UpdateTotal_Stale(s) == s

\* handleTimeUpdate: totalMinutes = (hour * 60) + minute
UpdateTotal(s) ==
    [s EXCEPT !.totalMinutes = JsAdd(JsMul(s.hour, Num(60)), s.minute)]

\* handleTimeUpdate: buttonActive from the toggle's class list, then the
\* change notification.  Revision A reads the free identifier btn, which is
\* not in scope in the method: it resolves on the global object and raises
\* a ReferenceError when the page defines no such global.
ReadButtonAndNotify(s) ==
    IF s.rev = "A"
    THEN IF s.globalBtn = "undefined"
         THEN [s EXCEPT !.thrown = "ReferenceError"]
         ELSE TriggerEvent([s EXCEPT !.buttonActive = (s.globalBtn = "active")],
                           "change")
    ELSE TriggerEvent([s EXCEPT !.buttonActive = s.btnActive], "change")

\* handleTimeUpdate.  minute.toString() on undefined raises a TypeError
\* before anything is written.
HandleTimeUpdate(s) ==
    IF s.hour.k = "undefined" \/ s.minute.k = "undefined"
    THEN [s EXCEPT !.thrown = "TypeError"]
    ELSE ReadButtonAndNotify(UpdateTotal(UpdateView(s)))

\* faulty variant: the hour is stepped without wrapping
StepHour_NoWrap(s, action) ==
    IF action = "up"
    THEN [s EXCEPT !.hour = JsAdd(s.hour, Num(1))]
    ELSE [s EXCEPT !.hour = JsSub(s.hour, Num(1))]

\* hour up / hour down
StepHour(s, action) ==
    IF action = "up"
    THEN [s EXCEPT !.hour = JsRem(JsAdd(s.hour, Num(1)), 24)]
    ELSE [s EXCEPT !.hour = JsRem(JsAdd(JsSub(s.hour, Num(1)), Num(24)), 24)]

\* faulty variant: the carry keeps the remainder, (minute + step) - 60
StepMinuteUp_KeepsRemainder(s) ==
    LET m == JsAdd(s.minute, Num(s.config.step))
    IN IF JsGe(m, 60)
       THEN [s EXCEPT !.minute = JsSub(m, Num(60)),
                      !.hour = JsRem(JsAdd(s.hour, Num(1)), 24)]
       ELSE [s EXCEPT !.minute = m]

\* faulty variant: the carry test is > 60 instead of >= 60
StepMinuteUp_StrictCompare(s) ==
    LET m == JsAdd(s.minute, Num(s.config.step))
    IN IF JsGe(m, 61)
       THEN [s EXCEPT !.minute = Num(0),
                      !.hour = JsRem(JsAdd(s.hour, Num(1)), 24)]
       ELSE [s EXCEPT !.minute = m]

\* minute up: add the step; at 60 or more reset to 0 and carry
StepMinuteUp(s) ==
    LET m == JsAdd(s.minute, Num(s.config.step))
    IN IF JsGe(m, 60)
       THEN [s EXCEPT !.minute = Num(0),
                      !.hour = JsRem(JsAdd(s.hour, Num(1)), 24)]
       ELSE [s EXCEPT !.minute = m]

\* faulty variant: the borrow wraps, (minute - step) + 60
StepMinuteDown_Wraps(s) ==
    LET m == JsSub(s.minute, Num(s.config.step))
    IN IF JsLt(m, 0)
       THEN [s EXCEPT !.minute = JsAdd(m, Num(60)),
                      !.hour = JsRem(JsAdd(JsSub(s.hour, Num(1)), Num(24)), 24)]
       ELSE [s EXCEPT !.minute = m]

\* minute down: subtract the step; below 0 set 60 - step and borrow
StepMinuteDown(s) ==
    LET m == JsSub(s.minute, Num(s.config.step))
    IN IF JsLt(m, 0)
       THEN [s EXCEPT !.minute = JsSub(Num(60), Num(s.config.step)),
                      !.hour = JsRem(JsAdd(JsSub(s.hour, Num(1)), Num(24)), 24)]
       ELSE [s EXCEPT !.minute = m]

\* the onclick handler of a step button carrying data = {type, action}
AdjustClick(s, data) ==
    IF data.type = "hour" /\ data.action \in {"up", "down"}
    THEN HandleTimeUpdate(StepHour(s, data.action))
    ELSE IF data.type = "minute" /\ data.action = "up"
    THEN HandleTimeUpdate(StepMinuteUp(s))
    ELSE IF data.type = "minute" /\ data.action = "down"
    THEN HandleTimeUpdate(StepMinuteDown(s))
    ELSE s

\* the handler of a step button whose data attribute is attr: JSON text of
\* an object with type and action ("object"), text that is no JSON
\* ("malformed"), or no attribute at all ("absent").  JSON.parse raises a
\* SyntaxError on the second; on the third it parses null to null, and
\* data.type raises a TypeError
AdjustButtonClick(s, attr) ==
    IF attr.kind = "object"
    THEN AdjustClick(s, [type |-> attr.type, action |-> attr.action])
    ELSE IF attr.kind = "malformed" THEN [s EXCEPT !.thrown = "SyntaxError"]
    ELSE [s EXCEPT !.thrown = "TypeError"]

\* addOverlayListener: the marker guards the registration of the document
\* click observer, which is never removed
AddOverlayListener_Unguarded(s) ==
    [s EXCEPT !.overlayDissmiss = TRUE, !.observers = @ + 1]

\* addOverlayListener
AddOverlayListener(s) ==
    IF s.overlayDissmiss THEN s
    ELSE [s EXCEPT !.overlayDissmiss = TRUE, !.observers = @ + 1]

\* the toggle icon's onclick handler; revision A goes on to fire show
BtnClick(s) ==
    LET s1 == [s EXCEPT !.btnActive = ~ @,
                        !.popupDisplay = IF @ = "flex" THEN "none" ELSE "flex"]
        s2 == HandleTimeUpdate(AddOverlayListener(s1))
    IN IF s.rev = "A" /\ s2.thrown = "none" THEN TriggerEvent(s2, "show") ELSE s2

\* (!popup?.style.display === "flex"): the negation binds first, and a
\* boolean is never strictly equal to a string
ObserverSkips(s) == FALSE

\* faulty variant: the observer does not test popup.contains(e.target)
DocumentClick_NoContains(s, target) ==
    IF ~ s.overlayDissmiss \/ ObserverSkips(s) THEN s
    ELSE IF target = "toggle" THEN s
    ELSE LET s1 == [s EXCEPT !.popupDisplay = "none", !.btnActive = FALSE]
         IN IF s.rev = "A" THEN TriggerEvent(s1, "dismiss") ELSE s1

\* the document click observer, for a click whose target is the toggle icon
\* itself ("toggle"), a node inside the icon ("toggleInner"), a node inside
\* the popup ("popup") or any other node of the page ("outside")
DocumentClick(s, target) ==
    IF ~ s.overlayDissmiss \/ ObserverSkips(s) THEN s
    ELSE IF target = "popup" \/ target = "toggle" THEN s
    ELSE LET s1 == [s EXCEPT !.popupDisplay = "none", !.btnActive = FALSE]
         IN IF s.rev = "A" THEN TriggerEvent(s1, "dismiss") ELSE s1

\* faulty variant: Math.round in place of Math.floor
SetValue_Rounds(s, t) ==
    HandleTimeUpdate([s EXCEPT !.hour = Num((t + 30) \div 60),
                               !.minute = JsRem(Num(t), 60)])

\* setValue(totalMinutes)
SetValue(s, t) ==
    HandleTimeUpdate([s EXCEPT !.hour = Num(t \div 60),
                               !.minute = JsRem(Num(t), 60)])

\* on(event, callback) / onChange(callback)
On(s, event, cb) ==
    IF event \notin KnownEvents(s.rev) THEN s
    ELSE IF s.rev = "C" THEN [s EXCEPT !.eventHandlers[event] = << cb >>]
    ELSE [s EXCEPT !.eventHandlers[event] = Append(@, cb)]

\* setValid(isValid): nothing happens on a page without the confirm button
SetValid(s, button, isValid) ==
    IF button = "absent" THEN s ELSE [s EXCEPT !.invalid = ~ isValid]

\* setValid(isValid): button.disabled = !isValid
SetValidButton(button, isValid) ==
    IF button = "absent" THEN button
    ELSE IF isValid THEN "enabled" ELSE "disabled"

\* let [hour, minute] = value.split(":").map(Number)
ParseValue(text) ==
    LET parts == Split(text)
    IN [hour |-> ToNumber(parts[1]),
        minute |-> IF Len(parts) >= 2 THEN ToNumber(parts[2]) ELSE Undefined]

\* the instance as the constructor sets it up before reading the element
NewInstance(r, g, options, text) ==
    [rev |-> r, globalBtn |-> g, config |-> MergeConfig(options),
     hour |-> Num(0), minute |-> Num(0), totalMinutes |-> Num(0),
     buttonActive |-> FALSE,
     inputValue |-> text, labelHour |-> <<"0", "0">>, labelMinute |-> <<"0", "0">>,
     btnActive |-> FALSE, popupDisplay |-> "", overlayDissmiss |-> FALSE,
     eventHandlers |-> [e \in EventNames |-> << >>],
     invalid |-> FALSE, observers |-> 0,
     thrown |-> "none", calls |-> << >>, fired |-> << >>]

\* the constructor on an element whose value is text
Constructor(r, g, options, text) ==
    LET s == NewInstance(r, g, options, text)
    IN IF Len(text) > 0
       THEN LET v == ParseValue(text)
            IN HandleTimeUpdate([s EXCEPT !.hour = v.hour, !.minute = v.minute])
       ELSE [s EXCEPT !.inputValue = s.config.placeholder]

-----------------------------------------------------------------------------
(* Inputs of the model.                                                    *)

\* the revision, with what the global btn of revision A resolves to: no
\* such global, an element without or with the class "active"
Pages ==
    { <<"A", "undefined">>, <<"A", "plain">>, <<"A", "active">>,
      <<"B", "undefined">>, <<"C", "undefined">> }

OptionSets == { NoOptions, [step |-> 15], [step |-> 90] }

InitialTexts ==
    { << >>,
      <<"0", "9", ":", "0", "5">>,
      <<"2", "5", ":", "9", "9">>,
      <<"a", "b", ":", "c", "d">>,
      <<"a", "b", "c">> }

SetValueInputs == { 870, 1500, -61 }

StepData == [type : {"hour", "minute"}, action : {"up", "down"}]

NoArg == [text |-> << >>, t |-> 0, type |-> "", action |-> "", target |-> "",
          event |-> "", cb |-> "", id |-> "", isValid |-> TRUE, attr |-> ""]

-----------------------------------------------------------------------------
(* The state machine.                                                      *)

Cur ==
    [rev |-> rev, globalBtn |-> globalBtn, config |-> config,
     hour |-> hour, minute |-> minute, totalMinutes |-> totalMinutes,
     buttonActive |-> buttonActive,
     inputValue |-> inputValue, labelHour |-> labelHour,
     labelMinute |-> labelMinute,
     btnActive |-> btnActive, popupDisplay |-> popupDisplay,
     overlayDissmiss |-> overlayDissmiss, eventHandlers |-> eventHandlers,
     invalid |-> invalid, observers |-> observers,
     thrown |-> "none", calls |-> << >>, fired |-> << >>]

\* what is remembered of the state an operation started from
Snapshot(s) ==
    [totalMinutes |-> s.totalMinutes, buttonActive |-> s.buttonActive,
     btnActive |-> s.btnActive, popupDisplay |-> s.popupDisplay,
     overlayDissmiss |-> s.overlayDissmiss]

\* the page has no group
NoGroup == [status |-> "none"]

\* the variables of the picker take the values of s; op and arg name the
\* operation
Effect(s, op, arg) ==
    /\ rev' = s.rev
    /\ globalBtn' = s.globalBtn
    /\ config' = s.config
    /\ hour' = s.hour
    /\ minute' = s.minute
    /\ totalMinutes' = s.totalMinutes
    /\ buttonActive' = s.buttonActive
    /\ inputValue' = s.inputValue
    /\ labelHour' = s.labelHour
    /\ labelMinute' = s.labelMinute
    /\ btnActive' = s.btnActive
    /\ popupDisplay' = s.popupDisplay
    /\ overlayDissmiss' = s.overlayDissmiss
    /\ eventHandlers' = s.eventHandlers
    /\ thrown' = s.thrown
    /\ calls' = s.calls
    /\ fired' = s.fired
    /\ invalid' = s.invalid
    /\ observers' = s.observers
    /\ minuteStepped' = IF op = "step" /\ arg.type = "minute"
                            /\ arg.action \in {"up", "down"} THEN TRUE
                        ELSE IF op = "setValue" THEN FALSE
                        ELSE minuteStepped
    /\ lastOp' = op
    /\ lastArg' = arg
    /\ prev' = [hour |-> hour, minute |-> minute]
    /\ before' = Snapshot(Cur)
    /\ registered' = IF op = "on" THEN Append(registered, << arg.event, arg.cb >>)
                     ELSE registered
    /\ UNCHANGED << status, group >>

\* an operation that leaves the confirm button alone and constructs nothing
Becomes(s, op, arg) ==
    /\ Effect(s, op, arg)
    /\ UNCHANGED << confirmButton, pageIds, earlier >>

\* the variables hold the values of s
StateIs(s) ==
    /\ rev = s.rev
    /\ globalBtn = s.globalBtn
    /\ config = s.config
    /\ hour = s.hour
    /\ minute = s.minute
    /\ totalMinutes = s.totalMinutes
    /\ buttonActive = s.buttonActive
    /\ inputValue = s.inputValue
    /\ labelHour = s.labelHour
    /\ labelMinute = s.labelMinute
    /\ btnActive = s.btnActive
    /\ popupDisplay = s.popupDisplay
    /\ overlayDissmiss = s.overlayDissmiss
    /\ eventHandlers = s.eventHandlers
    /\ thrown = s.thrown
    /\ calls = s.calls
    /\ fired = s.fired
    /\ invalid = s.invalid
    /\ observers = s.observers

\* no operation is remembered beyond the last one
NoEarlier ==
    [op |-> "none", type |-> "", action |-> "", hour |-> Num(0),
     minute |-> Num(0)]

\* no step was clicked yet, and the ids of the page are not followed
NothingYet ==
    /\ minuteStepped = FALSE
    /\ pageIds = << >>
    /\ earlier = NoEarlier

\* the state after new TimePick(selector, options) over an element whose
\* value is text, on a page whose confirm button is button; a constructor
\* that throws yields no picker
NewPicker(page, options, text, button) ==
    LET s == Constructor(page[1], page[2], options, text)
    IN /\ StateIs(s)
       /\ minuteStepped = FALSE
       /\ earlier = NoEarlier
       /\ status = (IF s.thrown = "none" THEN "constructed" ELSE "failed")
       /\ lastOp = "construct"
       /\ lastArg = [NoArg EXCEPT !.text = text]
       /\ prev = [hour |-> Num(0), minute |-> Num(0)]
       /\ before = Snapshot(NewInstance(page[1], page[2], options, text))
       /\ registered = << >>
       /\ confirmButton = button
       /\ group = NoGroup

\* the same, the picker's id left out of the picture
ConstructedOn(page, options, text, button) ==
    /\ NewPicker(page, options, text, button)
    /\ pageIds = << >>

\* the same on a page without a confirm button
Constructed(page, options, text) ==
    ConstructedOn(page, options, text, "absent")

Init ==
    \E page \in Pages, options \in OptionSets, text \in InitialTexts :
        Constructed(page, options, text)

\* a click on the toggle icon or on a node inside it: the icon's onclick
\* handler runs, then the event reaches the document
ToggleClick ==
    \E target \in {"toggle", "toggleInner"} :
        /\ status = "constructed"
        /\ Becomes(DocumentClick(BtnClick(Cur), target), "toggle",
                   [NoArg EXCEPT !.target = target])

\* a click on one of the four step buttons, which are inside the popup
StepClick ==
    \E data \in StepData :
        /\ status = "constructed"
        /\ Becomes(DocumentClick(AdjustClick(Cur, data), "popup"), "step",
                   [NoArg EXCEPT !.type = data.type, !.action = data.action])

\* a click elsewhere: inside the popup but on no button, or outside of it
OtherClick ==
    \E target \in {"popup", "outside"} :
        /\ status = "constructed"
        /\ Becomes(DocumentClick(Cur, target), "click",
                   [NoArg EXCEPT !.target = target])

SetValueCall ==
    \E t \in SetValueInputs :
        /\ status = "constructed"
        /\ Becomes(SetValue(Cur, t), "setValue", [NoArg EXCEPT !.t = t])

Next ==
    \/ ToggleClick
    \/ StepClick
    \/ OtherClick
    \/ SetValueCall

Spec == Init /\ [][Next]_vars

\* getValue()
GetValue ==
    [hour |-> hour, minute |-> minute, totalMinutes |-> totalMinutes,
     buttonActive |-> buttonActive]

-----------------------------------------------------------------------------
(* One step from every in-range state: the picker is constructed over an   *)
(* empty element with step k, set to t, and one step button is clicked.    *)

\* the largest configured step explored
MaxStepInput == 60

\* the largest totalMinutes passed to setValue
MaxSetValueInput == 1439

StepPages == { <<"A", "undefined">>, <<"B", "undefined">>, <<"C", "undefined">> }

\* every step is explored at these hours, the default step at every hour
EdgeHours == {0, 11, 23}

InitStep ==
    \E page \in StepPages, k \in 1..MaxStepInput, t \in 0..MaxSetValueInput :
        /\ k = DEFAULT_OPTIONS.step \/ (t \div 60) \in EdgeHours
        /\ StateIs(SetValue(Constructor(page[1], page[2], [step |-> k], << >>), t))
        /\ NothingYet
        /\ status = "constructed"
        /\ lastOp = "setValue"
        /\ lastArg = [NoArg EXCEPT !.t = t]
        /\ prev = [hour |-> Num(0), minute |-> Num(0)]
        /\ before = Snapshot(NewInstance(page[1], page[2], [step |-> k], << >>))
        /\ registered = << >>
        /\ confirmButton = "absent"
        /\ group = NoGroup

StepOnce ==
    /\ lastOp = "setValue"
    /\ StepClick

SpecStep == InitStep /\ [][StepOnce]_vars

(* Two steps from every in-range state: as above, with a second click      *)
(* after the first; the first click and the time before it are remembered. *)

StepAgain ==
    \E data \in StepData :
        /\ status = "constructed"
        /\ lastOp = "setValue" \/ (lastOp = "step" /\ earlier.op = "setValue")
        /\ Effect(DocumentClick(AdjustClick(Cur, data), "popup"), "step",
                  [NoArg EXCEPT !.type = data.type, !.action = data.action])
        /\ earlier' = [op |-> lastOp, type |-> lastArg.type,
                       action |-> lastArg.action, hour |-> prev.hour,
                       minute |-> prev.minute]
        /\ UNCHANGED << confirmButton, pageIds >>

SpecStepTwice == InitStep /\ [][StepAgain]_vars

(* One setValue(t), for every t, on every freshly constructed picker.      *)

SetValueOnce ==
    \E t \in 0..MaxSetValueInput :
        /\ lastOp = "construct"
        /\ status = "constructed"
        /\ Becomes(SetValue(Cur, t), "setValue", [NoArg EXCEPT !.t = t])

SpecSetValue == Init /\ [][SetValueOnce]_vars

-----------------------------------------------------------------------------
(* Listeners: callbacks are registered on a fresh picker, the popup is     *)
(* toggled and clicked at, and one step or setValue follows.               *)

Listeners == {"L1", "L2"}

\* the events listeners are registered for
ListenEvents == {"change", "show"}

\* the largest number of on / onChange calls explored
MaxRegistrations == 2

\* options that name autohide are merged into config like any other
EventOptions == { NoOptions, [autohide |-> FALSE] }

EventTexts == { << >>, <<"0", "9", ":", "0", "5">> }

InitEvents ==
    \E page \in Pages, options \in EventOptions, text \in EventTexts :
        Constructed(page, options, text)

\* picker.on(event, cb); revision C has onChange(cb) only
OnCall ==
    \E event \in ListenEvents, cb \in Listeners :
        /\ status = "constructed"
        /\ rev = "C" => event = "change"
        /\ Becomes(On(Cur, event, cb), "on", [NoArg EXCEPT !.event = event, !.cb = cb])

RegisterFirst ==
    /\ lastOp \in {"construct", "on"}
    /\ Len(registered) < MaxRegistrations
    /\ OnCall

ClickAround ==
    /\ lastOp \notin {"step", "setValue"}
    /\ (ToggleClick \/ OtherClick)

RecomputeOnce ==
    /\ lastOp \notin {"step", "setValue"}
    /\ (StepClick \/ SetValueCall)

NextEvents ==
    \/ RegisterFirst
    \/ ClickAround
    \/ RecomputeOnce

SpecEvents == InitEvents /\ [][NextEvents]_vars

-----------------------------------------------------------------------------
(* Listeners that throw: as above, with callbacks that raise an exception  *)
(* when they are invoked among the ones registered.                        *)

OnCallAny ==
    \E event \in ListenEvents, cb \in Listeners \cup Throwing :
        /\ status = "constructed"
        /\ rev = "C" => event = "change"
        /\ Becomes(On(Cur, event, cb), "on", [NoArg EXCEPT !.event = event, !.cb = cb])

RegisterAnyFirst ==
    /\ lastOp \in {"construct", "on"}
    /\ Len(registered) < MaxRegistrations
    /\ OnCallAny

NextThrow ==
    \/ RegisterAnyFirst
    \/ ClickAround
    \/ RecomputeOnce

SpecThrow == InitEvents /\ [][NextThrow]_vars

-----------------------------------------------------------------------------
(* setValid on pages with and without the confirm button, between steps    *)
(* and setValue calls.                                                     *)

ValidTexts == { << >>, <<"0", "9", ":", "0", "5">> }

InitValid ==
    \E page \in Pages, text \in ValidTexts, button \in {"absent", "enabled"} :
        ConstructedOn(page, NoOptions, text, button)

\* picker.setValid(isValid)
SetValidCall ==
    \E isValid \in BOOLEAN :
        /\ status = "constructed"
        /\ Effect(SetValid(Cur, confirmButton, isValid), "setValid",
                  [NoArg EXCEPT !.isValid = isValid])
        /\ confirmButton' = SetValidButton(confirmButton, isValid)
        /\ UNCHANGED << pageIds, earlier >>

NextValid ==
    \/ SetValidCall
    \/ StepClick
    \/ SetValueCall

SpecValid == InitValid /\ [][NextValid]_vars

-----------------------------------------------------------------------------
(* The validation pattern of the documentation: a change listener that     *)
(* computes isValid from totalMinutes and calls picker.setValid(isValid).  *)

\* the callbacks that validate
Validators == {"LV"}

\* const isValid = totalMinutes >= 360 && totalMinutes <= 1200
IsValidTotal(total) == JsGe(total, 360) /\ IsNum(total) /\ total.v <= 1200

RECURSIVE RunValidators(_, _, _, _)
\* the bodies of the validating callbacks among the invocations cs, from
\* the i-th on: each calls setValid with the total it was handed
RunValidators(s, button, cs, i) ==
    IF i > Len(cs) THEN s
    ELSE IF cs[i][2] \in Validators
    THEN RunValidators(SetValid(s, button, IsValidTotal(s.totalMinutes)),
                       button, cs, i + 1)
    ELSE RunValidators(s, button, cs, i + 1)

\* the confirm button after these callbacks ran
ButtonAfter(s, button, cs) ==
    IF \E i \in 1..Len(cs) : cs[i][2] \in Validators
    THEN SetValidButton(button, IsValidTotal(s.totalMinutes))
    ELSE button

\* an operation whose handler left s1, the callbacks it invoked included
Validated(s1, op, arg) ==
    /\ Effect(RunValidators(s1, confirmButton, s1.calls, 1), op, arg)
    /\ confirmButton' = ButtonAfter(s1, confirmButton, s1.calls)
    /\ UNCHANGED << pageIds, earlier >>

\* picker.on('change', validator) / picker.onChange(validator)
RegisterValidator ==
    \E cb \in Validators :
        /\ status = "constructed"
        /\ lastOp = "construct"
        /\ Becomes(On(Cur, "change", cb), "on",
                   [NoArg EXCEPT !.event = "change", !.cb = cb])

ValidatedStepClick ==
    \E data \in StepData :
        /\ status = "constructed"
        /\ lastOp /= "construct"
        /\ Validated(DocumentClick(AdjustClick(Cur, data), "popup"), "step",
                     [NoArg EXCEPT !.type = data.type, !.action = data.action])

ValidatedSetValueCall ==
    \E t \in SetValueInputs :
        /\ status = "constructed"
        /\ lastOp /= "construct"
        /\ Validated(SetValue(Cur, t), "setValue", [NoArg EXCEPT !.t = t])

NextValidate ==
    \/ RegisterValidator
    \/ ValidatedStepClick
    \/ ValidatedSetValueCall

SpecValidate == InitValid /\ [][NextValidate]_vars

-----------------------------------------------------------------------------
(* Step buttons whose data attribute was changed on the page: the handler  *)
(* reads the attribute at every click.                                     *)

\* data attributes that name none of the four steps
OtherData ==
    { [kind |-> "object", type |-> "second", action |-> "up"],
      [kind |-> "object", type |-> "hour", action |-> "sideways"],
      [kind |-> "object", type |-> "", action |-> ""],
      [kind |-> "malformed", type |-> "", action |-> ""],
      [kind |-> "absent", type |-> "", action |-> ""] }

InitData ==
    \E page \in Pages, text \in ValidTexts :
        Constructed(page, NoOptions, text)

\* a click on a step button carrying such an attribute; the button is
\* inside the popup, and the click reaches the document whatever the
\* handler did
OtherDataClick ==
    \E attr \in OtherData :
        /\ status = "constructed"
        /\ Becomes(DocumentClick(AdjustButtonClick(Cur, attr), "popup"), "data",
                   [NoArg EXCEPT !.attr = attr.kind, !.type = attr.type,
                                 !.action = attr.action])

NextData ==
    \/ ToggleClick
    \/ StepClick
    \/ OtherDataClick

SpecData == InitData /\ [][NextData]_vars

-----------------------------------------------------------------------------
(* Identifiers: every constructor draws this.id = randomString(5); the     *)
(* pickers of one page are constructed one after the other, and the        *)
(* variables of the picker describe the one constructed last.              *)

\* const characters
Characters ==
    << "A", "B", "C", "D", "E", "F", "G", "H", "I", "J", "K", "L", "M",
       "N", "O", "P", "Q", "R", "S", "T", "U", "V", "W", "X", "Y", "Z",
       "a", "b", "c", "d", "e", "f", "g", "h", "i", "j", "k", "l", "m",
       "n", "o", "p", "q", "r", "s", "t", "u", "v", "w", "x", "y", "z",
       "0", "1", "2", "3", "4", "5", "6", "7", "8", "9" >>

\* this.randomString(5)
IdLength == 5

\* the values of Math.floor(Math.random() * charactersLength) explored:
\* the first and the last index
RandomOutcomes == {0, Len(Characters) - 1}

\* the largest number of pickers constructed on one page
MaxPickers == 2

\* randomString(length), outcomes[i] being the i-th random index
RandomString(length, outcomes) ==
    [i \in 1..length |-> Characters[outcomes[i] + 1]]

InitIds ==
    \E page \in Pages, outcomes \in [1..IdLength -> RandomOutcomes] :
        /\ NewPicker(page, NoOptions, << >>, "absent")
        /\ pageIds = << RandomString(IdLength, outcomes) >>

\* one more new TimePick(selector, options) on the same page
ConstructPicker ==
    \E outcomes \in [1..IdLength -> RandomOutcomes] :
        /\ status = "constructed"
        /\ Len(pageIds) < MaxPickers
        /\ Effect(Constructor(rev, globalBtn, NoOptions, << >>), "construct",
                  NoArg)
        /\ pageIds' = Append(pageIds, RandomString(IdLength, outcomes))
        /\ UNCHANGED << confirmButton, earlier >>

SpecIds == InitIds /\ [][ConstructPicker]_vars

-----------------------------------------------------------------------------
(* Groups: new TimePick(".cls", options) over a document, in the revisions *)
(* whose class branch returns an object that forwards by id (A and C).     *)
(* An element is its id ("" when it has none), whether the class selector  *)
(* matches it, its text and whether it carries the class "invalid".        *)

\* `timePicker_${index}`
SyntheticIds == << "timePicker_0", "timePicker_1" >>

ElementIds == { "", "a", "timePicker_0" }

Elements == [id : ElementIds, matched : BOOLEAN, value : { << >> },
             invalid : { FALSE }]

\* the documents explored, elements in document order
Documents ==
    { << e >> : e \in Elements } \cup { << e, f >> : e \in Elements, f \in Elements }

GroupPages == { <<"A", "undefined">>, <<"A", "plain">>, <<"C", "undefined">> }

\* the largest number of calls and clicks explored on a group
MaxGroupOps == 2

\* document.querySelectorAll('#' + id)[0]: the first element carrying id
FirstWithId(elements, id) ==
    CHOOSE q \in 1..Len(elements) :
        elements[q].id = id /\ \A j \in 1..(q - 1) : elements[j].id /= id

\* Map.prototype.set: a new key goes last, an old key keeps its place
MapSet(g, id, member) ==
    [g EXCEPT !.keys = IF \E i \in 1..Len(@) : @[i] = id THEN @ ELSE Append(@, id),
              !.instances = [k \in DOMAIN @ \cup {id} |->
                                IF k = id THEN member ELSE @[k]]]

\* the body of elements.forEach((el, index) => ...) for the element at
\* document position p: the id is assigned if absent, and the picker is
\* constructed from the selector '#' + id
AddMember(g, p, index) ==
    LET id == IF g.elements[p].id = "" THEN SyntheticIds[index + 1]
              ELSE g.elements[p].id
        els == [g.elements EXCEPT ![p].id = id]
        q == FirstWithId(els, id)
        s == Constructor(g.rev, g.globalBtn, g.options, els[q].value)
        g1 == [g EXCEPT !.elements = [els EXCEPT ![q].value = s.inputValue]]
    IN IF s.thrown /= "none" THEN [g1 EXCEPT !.thrown = s.thrown]
       ELSE MapSet(g1, id, [picker |-> s, el |-> q])

RECURSIVE AddMembers(_, _, _)
\* elements.forEach over the matched elements from position p on; an
\* exception in a member's constructor ends the loop
AddMembers(g, p, index) ==
    IF p > Len(g.elements) \/ g.thrown /= "none" THEN g
    ELSE IF ~ g.elements[p].matched THEN AddMembers(g, p + 1, index)
    ELSE AddMembers(AddMember(g, p, index), p + 1, index + 1)

\* new TimePick(".cls", options) over the document doc
NewGroup(r, g, options, doc) ==
    LET g0 == [status |-> "constructed", rev |-> r, globalBtn |-> g,
               options |-> options, document |-> doc, elements |-> doc,
               keys |-> << >>, instances |-> [k \in {} |-> 0],
               before |-> [k \in {} |-> 0], result |-> "undefined",
               eventHandlers |-> [e \in EventNames |-> << >>],
               listened |-> << >>,
               thrown |-> "none", ops |-> 0]
        g1 == AddMembers(g0, 1, 0)
    IN [g1 EXCEPT !.status = IF g1.thrown = "none" THEN "constructed" ELSE "failed",
                  !.before = g1.instances]

\* instances.get(id)?.
Has(g, id) == id \in DOMAIN g.instances

\* the group as an operation finds it: nothing thrown, invoked or fired yet
Fresh(g) ==
    LET is == [k \in DOMAIN g.instances |->
                  [g.instances[k] EXCEPT !.picker.thrown = "none",
                                         !.picker.calls = << >>,
                                         !.picker.fired = << >>]]
    IN [g EXCEPT !.instances = is, !.before = is, !.result = "undefined",
                 !.thrown = "none"]

\* the member keyed by id becomes s, which wrote the text of its element
Put(g, id, s) ==
    LET q == g.instances[id].el
    IN [g EXCEPT !.instances[id].picker = s,
                 !.elements[q].value = s.inputValue,
                 !.elements[q].invalid = s.invalid,
                 !.thrown = s.thrown]

\* getValue: (id) => instances.get(id)?.getValue()
GroupGetValue(g, id) ==
    IF Has(g, id) THEN [g EXCEPT !.result = "object"] ELSE g

\* faulty variant: setValue reaches every member
GroupSetValue_Broadcast(g, id, t) ==
    [g EXCEPT !.instances = [k \in DOMAIN @ |->
                                [@[k] EXCEPT !.picker = SetValue(@, t)]]]

\* setValue: (id, totalMinutes) => instances.get(id)?.setValue(totalMinutes)
GroupSetValue(g, id, t) ==
    IF Has(g, id) THEN Put(g, id, SetValue(g.instances[id].picker, t)) ELSE g

\* faulty variant: the member is called without the ?. guard
GroupSetValid_Unguarded(g, button, id, isValid) ==
    IF Has(g, id)
    THEN Put(g, id, SetValid(g.instances[id].picker, button, isValid))
    ELSE [g EXCEPT !.thrown = "TypeError"]

\* setValid: (id, isValid) => instances.get(id)?.setValid(isValid)
GroupSetValid(g, button, id, isValid) ==
    IF Has(g, id)
    THEN Put(g, id, SetValid(g.instances[id].picker, button, isValid))
    ELSE g

\* faulty variant: the click reaches the observer of the clicked member only
GroupClick_Unobserved(g, id, target, data) ==
    LET hit(s) == IF target \in {"toggle", "toggleInner"}
                  THEN DocumentClick(BtnClick(s), target)
                  ELSE DocumentClick(AdjustClick(s, data), "popup")
    IN IF Has(g, id) THEN Put(g, id, hit(g.instances[id].picker)) ELSE g

\* a click in the document: on the toggle of the member keyed by id or on a
\* node inside that icon, on one of its step buttons (data), or, with
\* id = "", on no picker at all; the member's handler runs, then every
\* registered observer sees the click, which is outside the popup of every
\* other member
GroupClick(g, id, target, data) ==
    LET hit(s) == IF target \in {"toggle", "toggleInner"}
                  THEN DocumentClick(BtnClick(s), target)
                  ELSE DocumentClick(AdjustClick(s, data), "popup")
        g1 == [g EXCEPT !.instances = [k \in DOMAIN @ |->
                  IF k = id THEN @[k]
                  ELSE [@[k] EXCEPT !.picker = DocumentClick(@, "outside")]]]
    IN IF Has(g, id) THEN Put(g1, id, hit(g.instances[id].picker)) ELSE g1

\* the ids calls are made with: those of the page and one of no element
CallIds == (ElementIds \ {""}) \cup {SyntheticIds[i] : i \in 1..Len(SyntheticIds)}
               \cup {"nope"}

InitGroup ==
    \E page \in GroupPages, doc \in Documents, button \in {"absent", "enabled"} :
        /\ group = NewGroup(page[1], page[2], NoOptions, doc)
        /\ StateIs(NewInstance(page[1], page[2], NoOptions, << >>))
        /\ NothingYet
        /\ status = "group"
        /\ lastOp = "construct"
        /\ lastArg = NoArg
        /\ prev = [hour |-> Num(0), minute |-> Num(0)]
        /\ before = Snapshot(NewInstance(page[1], page[2], NoOptions, << >>))
        /\ registered = << >>
        /\ confirmButton = button

\* the group becomes g after the operation op with argument arg
GroupBecomes(g, op, arg) ==
    /\ group.status = "constructed"
    /\ group.ops < MaxGroupOps
    /\ group' = [g EXCEPT !.ops = @ + 1]
    /\ lastOp' = op
    /\ lastArg' = arg
    /\ UNCHANGED << rev, globalBtn, status, config, hour, minute, totalMinutes,
                    buttonActive, inputValue, labelHour, labelMinute, btnActive,
                    popupDisplay, overlayDissmiss, eventHandlers, prev, thrown,
                    calls, fired, before, registered, invalid, observers,
                    minuteStepped, pageIds, earlier >>

GroupGetValueCall ==
    \E id \in CallIds :
        /\ GroupBecomes(GroupGetValue(Fresh(group), id), "getValue",
                        [NoArg EXCEPT !.id = id])
        /\ UNCHANGED confirmButton

GroupSetValueCall ==
    \E id \in CallIds, t \in {600} :
        /\ GroupBecomes(GroupSetValue(Fresh(group), id, t), "setValue",
                        [NoArg EXCEPT !.id = id, !.t = t])
        /\ UNCHANGED confirmButton

GroupSetValidCall ==
    \E id \in CallIds, isValid \in BOOLEAN :
        /\ GroupBecomes(GroupSetValid(Fresh(group), confirmButton, id, isValid),
                        "setValid", [NoArg EXCEPT !.id = id, !.isValid = isValid])
        /\ confirmButton' = IF Has(group, id)
                            THEN SetValidButton(confirmButton, isValid)
                            ELSE confirmButton

GroupToggleClick ==
    \E id \in DOMAIN group.instances, target \in {"toggle", "toggleInner"} :
        /\ GroupBecomes(GroupClick(Fresh(group), id, target, NoArg), "toggle",
                        [NoArg EXCEPT !.id = id, !.target = target])
        /\ UNCHANGED confirmButton

GroupStepClick ==
    \E id \in DOMAIN group.instances, data \in StepData :
        /\ GroupBecomes(GroupClick(Fresh(group), id, "step", data), "step",
                        [NoArg EXCEPT !.id = id, !.type = data.type,
                                      !.action = data.action])
        /\ UNCHANGED confirmButton

GroupOutsideClick ==
    /\ GroupBecomes(GroupClick(Fresh(group), "", "outside", NoArg), "click",
                    [NoArg EXCEPT !.target = "outside"])
    /\ UNCHANGED confirmButton

NextGroup ==
    \/ GroupGetValueCall
    \/ GroupSetValueCall
    \/ GroupSetValidCall
    \/ GroupToggleClick
    \/ GroupStepClick
    \/ GroupOutsideClick

SpecGroup == InitGroup /\ [][NextGroup]_vars

-----------------------------------------------------------------------------
(* Listeners on a group, in all three revisions.  In revision B the class  *)
(* branch fills this.instances and the caller gets the TimePick object     *)
(* itself, with its own eventHandlers; in A and C the returned object      *)
(* hands the callback to every member.                                     *)

GroupEventPages ==
    { <<"A", "undefined">>, <<"A", "plain">>, <<"B", "undefined">>,
      <<"C", "undefined">> }

\* on(event, cb) / onChange(cb) of the object a class selector returns;
\* listened keeps every callback passed to it
GroupOn(g, event, cb) ==
    LET g1 == [g EXCEPT !.listened = Append(@, << event, cb >>)]
    IN IF g.rev = "B"
       THEN [g1 EXCEPT !.eventHandlers[event] = Append(@, cb)]
       ELSE [g1 EXCEPT !.instances = [k \in DOMAIN @ |->
                [@[k] EXCEPT !.picker = On(@, event, cb)]]]

InitGroupEvents ==
    \E page \in GroupEventPages, doc \in Documents :
        /\ group = NewGroup(page[1], page[2], NoOptions, doc)
        /\ StateIs(NewInstance(page[1], page[2], NoOptions, << >>))
        /\ NothingYet
        /\ status = "group"
        /\ lastOp = "construct"
        /\ lastArg = NoArg
        /\ prev = [hour |-> Num(0), minute |-> Num(0)]
        /\ before = Snapshot(NewInstance(page[1], page[2], NoOptions, << >>))
        /\ registered = << >>
        /\ confirmButton = "absent"

\* group.on("change", cb) / group.onChange(cb), right after construction
GroupOnCall ==
    \E cb \in Listeners :
        /\ group.status = "constructed"
        /\ lastOp = "construct"
        /\ group' = GroupOn(Fresh(group), "change", cb)
        /\ lastOp' = "on"
        /\ lastArg' = [NoArg EXCEPT !.event = "change", !.cb = cb]
        /\ UNCHANGED << rev, globalBtn, status, config, hour, minute,
                        totalMinutes, buttonActive, inputValue, labelHour,
                        labelMinute, btnActive, popupDisplay, overlayDissmiss,
                        eventHandlers, prev, thrown, calls, fired, before,
                        registered, invalid, observers, minuteStepped,
                        pageIds, earlier, confirmButton >>

NextGroupEvents ==
    \/ GroupOnCall
    \/ GroupToggleClick
    \/ GroupStepClick
    \/ GroupOutsideClick

SpecGroupEvents == InitGroupEvents /\ [][NextGroupEvents]_vars

-----------------------------------------------------------------------------
(* Helpers of the properties.                                              *)

\* text is a zero-padded "HH:MM" with HH <= 23 and MM <= 59
IsHHMM(text) ==
    /\ Len(text) = 5
    /\ text[3] = ":"
    /\ \A i \in {1, 2, 4, 5} : text[i] \in DigitSet
    /\ 10 * DigitVal(text[1]) + DigitVal(text[2]) <= 23
    /\ 10 * DigitVal(text[4]) + DigitVal(text[5]) <= 59

InRange(h, m) == IsNum(h) /\ h.v \in 0..23 /\ IsNum(m) /\ m.v \in 0..59

IsStep(type, action) ==
    lastOp = "step" /\ lastArg.type = type /\ lastArg.action = action

\* the popup is shown: the stylesheet hides it unless display is "flex"
PopupOpen(display) == display = "flex"

\* the callbacks registered for event, in registration order
RegisteredFor(event) ==
    LET regs == SelectSeq(registered, LAMBDA r : r[1] = event)
    IN [i \in 1..Len(regs) |-> regs[i][2]]

\* the callbacks the last operation invoked for event, in invocation order
CalledFor(event) ==
    LET cs == SelectSeq(calls, LAMBDA c : c[1] = event)
    IN [i \in 1..Len(cs) |-> cs[i][2]]

\* how many notifications of event the last operation triggered
Fired(event) == Len(SelectSeq(fired, LAMBDA f : f.event = event))

\* what getValue() of a member reports of the time and the toggle
TimeOf(s) ==
    [hour |-> s.hour, minute |-> s.minute, totalMinutes |-> s.totalMinutes,
     buttonActive |-> s.buttonActive]

\* the decimal digits of a natural number, with a leading zero below 10
TwoDigits(n) == IF n < 10 THEN << "0", Digits[n + 1] >> ELSE NatToString(n)

\* a is a number that has such a form: an integer that is not negative
IsNatural(a) == IsNum(a) /\ a.v >= 0

\* the position of the first callback of hs that throws, 0 if none does
FirstThrowing(hs) ==
    IF \A i \in 1..Len(hs) : hs[i] \notin Throwing THEN 0
    ELSE CHOOSE i \in 1..Len(hs) :
             hs[i] \in Throwing /\ \A j \in 1..(i - 1) : hs[j] \notin Throwing

\* the document positions the class selector matches
Matched(doc) == { p \in 1..Len(doc) : doc[p].matched }

-----------------------------------------------------------------------------
(* Properties.                                                             *)

\* C1: in every state of a constructed picker, whatever the initial text
\* and whatever steps, toggles, clicks and setValue(t) calls came before,
\* 0 <= hour <= 23 and 0 <= minute <= 59.
C1_HourMinuteInRange ==
    status = "constructed" => InRange(hour, minute)

\* C2: between operations totalMinutes equals hour * 60 + minute, computed
\* as the program computes it (a sum with NaN is NaN).
C2_TotalIsDerived ==
    status = "constructed" =>
        totalMinutes = JsAdd(JsMul(hour, Num(60)), minute)

C2_Witness ==
    /\ status = "constructed"
    /\ IsStep("minute", "up")
    /\ prev = [hour |-> Num(14), minute |-> Num(30)]
    /\ totalMinutes = Num(885)

\* C3: from every hour h in 0..23, hour up yields (h + 1) mod 24 and hour
\* down yields (h - 1 + 24) mod 24, and the minute is left as it was.
C3_HourStepWraps ==
    (lastOp = "step" /\ lastArg.type = "hour" /\ InRange(prev.hour, prev.minute)) =>
        /\ IsStep("hour", "up") => hour = Num((prev.hour.v + 1) % 24)
        /\ IsStep("hour", "down") => hour = Num((prev.hour.v - 1 + 24) % 24)
        /\ minute = prev.minute

C3_Witness ==
    /\ IsStep("hour", "up")
    /\ prev = [hour |-> Num(23), minute |-> Num(59)]
    /\ hour = Num(0)
    /\ minute = Num(59)

\* C4: minute up adds the step and, when the sum reaches 60, sets minute
\* to 0 and carries into the hour (mod 24); minute down subtracts the step
\* and, when the difference is negative, sets minute to 60 - step and
\* borrows from the hour (mod 24); otherwise the hour is unchanged.
C4_MinuteStepTable ==
    (lastOp = "step" /\ lastArg.type = "minute" /\ InRange(prev.hour, prev.minute)) =>
        LET h == prev.hour.v
            up == prev.minute.v + config.step
            down == prev.minute.v - config.step
        IN /\ (IsStep("minute", "up") /\ up >= 60) =>
                  (minute = Num(0) /\ hour = Num((h + 1) % 24))
           /\ (IsStep("minute", "up") /\ up < 60) =>
                  (minute = Num(up) /\ hour = prev.hour)
           /\ (IsStep("minute", "down") /\ down < 0) =>
                  (minute = Num(60 - config.step) /\ hour = Num((h - 1 + 24) % 24))
           /\ (IsStep("minute", "down") /\ down >= 0) =>
                  (minute = Num(down) /\ hour = prev.hour)

C4_Witness ==
    /\ IsStep("minute", "up")
    /\ config.step = 30
    /\ prev = [hour |-> Num(23), minute |-> Num(45)]
    /\ hour = Num(0)
    /\ minute = Num(0)

\* C5 as stated: a minute step that overflows leaves (m + step) mod 60 and
\* one that underflows leaves m - step + 60, with the hour carried.
C5_ModuloSixty ==
    (lastOp = "step" /\ lastArg.type = "minute"
        /\ InRange(prev.hour, prev.minute) /\ config.step \in 1..60) =>
        LET h == prev.hour.v
            up == prev.minute.v + config.step
            down == prev.minute.v - config.step
        IN /\ (IsStep("minute", "up") /\ up >= 60) =>
                  (minute = Num(up % 60) /\ hour = Num((h + 1) % 24))
           /\ (IsStep("minute", "down") /\ down < 0) =>
                  (minute = Num(down + 60) /\ hour = Num((h - 1 + 24) % 24))

\* C5 amended: a minute step that overflows resets the minute to 0 and one
\* that underflows sets it to 60 - step, dropping the remainder; the hour
\* is carried by one (mod 24).  With step 30: 45 up gives 0, 10 down
\* gives 30.
C5_ResetOnCarry ==
    (lastOp = "step" /\ lastArg.type = "minute"
        /\ InRange(prev.hour, prev.minute) /\ config.step \in 1..60) =>
        LET h == prev.hour.v
            m == prev.minute.v
        IN /\ (IsStep("minute", "up") /\ m + config.step >= 60) =>
                  (minute = Num(0) /\ hour = Num((h + 1) % 24))
           /\ (IsStep("minute", "down") /\ m - config.step < 0) =>
                  (minute = Num(60 - config.step) /\ hour = Num((h - 1 + 24) % 24))
           /\ (IsStep("minute", "up") /\ config.step = 30 /\ m = 45) =>
                  minute = Num(0)
           /\ (IsStep("minute", "down") /\ config.step = 30 /\ m = 10) =>
                  minute = Num(30)

C5_Witness ==
    /\ IsStep("minute", "down")
    /\ config.step = 30
    /\ prev = [hour |-> Num(0), minute |-> Num(10)]
    /\ hour = Num(23)
    /\ minute = Num(30)

\* C6: with a step in 1..60, a minute step from an in-range state leaves
\* the minute in 0..59; the hour moves by exactly one (mod 24) when the
\* minute over- or underflows and stays otherwise.
C6_MinuteStepStaysInRange ==
    (lastOp = "step" /\ lastArg.type = "minute"
        /\ InRange(prev.hour, prev.minute) /\ config.step \in 1..60) =>
        LET h == prev.hour.v
            over == IsStep("minute", "up") /\ prev.minute.v + config.step >= 60
            under == IsStep("minute", "down") /\ prev.minute.v - config.step < 0
        IN /\ IsNum(minute) /\ minute.v \in 0..59
           /\ over => hour = Num((h + 1) % 24)
           /\ under => hour = Num((h + 23) % 24)
           /\ (~ over /\ ~ under) => hour = prev.hour

C6_Witness ==
    /\ IsStep("minute", "down")
    /\ config.step = 60
    /\ prev = [hour |-> Num(0), minute |-> Num(59)]
    /\ hour = Num(23)
    /\ minute = Num(0)

\* C7: for every t in 0..1439, after setValue(t) getValue() returns
\* hour = floor(t / 60), minute = t mod 60 and totalMinutes = t, whatever
\* the state was before; setValue(870) gives 14:30.
C7_SetValueRoundTrip ==
    (lastOp = "setValue" /\ lastArg.t \in 0..1439) =>
        /\ GetValue.hour = Num(lastArg.t \div 60)
        /\ GetValue.minute = Num(lastArg.t % 60)
        /\ GetValue.totalMinutes = Num(lastArg.t)
        /\ lastArg.t = 870 =>
               (GetValue.hour = Num(14) /\ GetValue.minute = Num(30))

C7_Witness ==
    /\ lastOp = "setValue"
    /\ lastArg.t = 870
    /\ prev = [hour |-> Num(25), minute |-> Num(99)]
    /\ GetValue.hour = Num(14)
    /\ GetValue.minute = Num(30)
    /\ GetValue.totalMinutes = Num(870)

\* C8: constructing over an element whose text is a valid "HH:MM" yields a
\* picker with the parsed hour and minute, and no listener is invoked
\* while the constructor runs.
C8_SilentInitFromValue ==
    (lastOp = "construct" /\ IsHHMM(lastArg.text)) =>
        LET text == lastArg.text
        IN /\ status = "constructed"
           /\ GetValue.hour = Num(10 * DigitVal(text[1]) + DigitVal(text[2]))
           /\ GetValue.minute = Num(10 * DigitVal(text[4]) + DigitVal(text[5]))
           /\ calls = << >>

\* C9: constructing over an element whose text is absent or is no "HH:MM"
\* value completes, shows the placeholder and leaves 0:00, total 0.
C9_UnparseableShowsPlaceholder ==
    (lastOp = "construct" /\ ~ IsHHMM(lastArg.text)) =>
        /\ status = "constructed"
        /\ inputValue = config.placeholder
        /\ hour = Num(0)
        /\ minute = Num(0)
        /\ totalMinutes = Num(0)

\* C10: construction never fails on a bad step, and the step in use is an
\* integer in 1..60: a configured step outside of it is replaced by 30.
C10_StepSanitized ==
    lastOp = "construct" =>
        /\ (lastArg.text = << >> => status = "constructed")
        /\ config.step \in 1..60

\* C11: every step, toggle and setValue invokes every callback registered
\* for change on the picker exactly once, in the order of registration; a
\* second registration does not remove the first.
C11_EveryChangeListenerOnce ==
    lastOp \in {"step", "toggle", "setValue"} =>
        CalledFor("change") = RegisteredFor("change")

\* C12: a click on the toggle flips the popup between closed and open,
\* leaves hour, minute and totalMinutes as they were, and fires a change
\* notification whose buttonActive is the popup's new visibility.
C12_ToggleFlipsAndNotifies ==
    lastOp = "toggle" =>
        /\ PopupOpen(popupDisplay) = ~ PopupOpen(before.popupDisplay)
        /\ hour = prev.hour
        /\ minute = prev.minute
        /\ totalMinutes = before.totalMinutes
        /\ \E i \in 1..Len(fired) :
               /\ fired[i].event = "change"
               /\ fired[i].buttonActive = PopupOpen(popupDisplay)

\* C13: between operations getValue().buttonActive is true exactly when the
\* popup is open, also after an outside click closed the popup.
C13_ButtonActiveMirrorsPopup ==
    status = "constructed" =>
        GetValue.buttonActive = PopupOpen(popupDisplay)

\* C14: in the revision that has the dismiss notification (A), with the
\* popup open, a click outside the popup and not on the toggle closes the
\* popup and fires exactly one dismiss; a click inside the popup, the four
\* step buttons included, leaves the popup open and fires no dismiss.
C14_OutsideClickDismisses ==
    (rev = "A" /\ PopupOpen(before.popupDisplay) /\ lastOp \in {"click", "step"}) =>
        IF lastOp = "click" /\ lastArg.target = "outside"
        THEN ~ PopupOpen(popupDisplay) /\ Fired("dismiss") = 1
        ELSE PopupOpen(popupDisplay) /\ Fired("dismiss") = 0

C14_Witness ==
    /\ rev = "A"
    /\ lastOp = "click"
    /\ lastArg.target = "outside"
    /\ PopupOpen(before.popupDisplay)
    /\ popupDisplay = "none"
    /\ fired = << [event |-> "dismiss", buttonActive |-> buttonActive,
                   totalMinutes |-> totalMinutes, value |-> << >>] >>

\* C15: a click outside the popup while the popup is closed fires no
\* notification and changes nothing.
C15_ObserverIdleWhileClosed ==
    (lastOp = "click" /\ lastArg.target = "outside"
        /\ ~ PopupOpen(before.popupDisplay)) =>
        /\ fired = << >>
        /\ Snapshot(Cur) = before
        /\ hour = prev.hour
        /\ minute = prev.minute

\* C16: a picker configured with autohide = false never registers the
\* document click observer, and no click outside closes its open popup.
C16_NoObserverWithoutAutohide ==
    ("autohide" \in DOMAIN config /\ config.autohide = FALSE) =>
        /\ ~ overlayDissmiss
        /\ ~ (/\ lastOp = "click"
              /\ lastArg.target = "outside"
              /\ PopupOpen(before.popupDisplay)
              /\ ~ PopupOpen(popupDisplay))

\* C17: a click on the toggle fires a show notification exactly when it
\* opens the popup; a click that closes the popup fires none.
C17_ShowExactlyOnOpen ==
    lastOp = "toggle" =>
        (Fired("show") = 1) = ~ PopupOpen(before.popupDisplay)

\* C18: a group constructed over n matched elements has exactly n entries
\* under n distinct ids, each a picker bound to a different one of the
\* matched elements, whatever ids the elements of the page already carry.
C18_GroupRoutesEveryElement ==
    status = "group" =>
        /\ group.status = "constructed"
        /\ Cardinality(DOMAIN group.instances) = Cardinality(Matched(group.document))
        /\ { group.instances[k].el : k \in DOMAIN group.instances }
               = Matched(group.document)

\* C19: in a group whose object forwards by id (revisions A and C),
\* setValue(id, t) and any step or toggle on the member keyed by id leave
\* hour, minute, totalMinutes and buttonActive of every other member as
\* they were.
C19_OnlyTheMemberChanges ==
    (status = "group" /\ lastOp \in {"setValue", "step", "toggle"}
        /\ Has(group, lastArg.id)) =>
        \A k \in DOMAIN group.instances \ {lastArg.id} :
            TimeOf(group.instances[k].picker) = TimeOf(group.before[k].picker)

C19_Witness ==
    /\ status = "group"
    /\ lastOp = "step"
    /\ Has(group, lastArg.id)
    /\ TimeOf(group.instances[lastArg.id].picker)
           /= TimeOf(group.before[lastArg.id].picker)
    /\ \E k \in DOMAIN group.instances \ {lastArg.id} :
           /\ group.instances[k].picker.totalMinutes = Num(600)
           /\ group.before[k].picker.totalMinutes = Num(600)

\* C20: in a group whose object forwards by id (revisions A and C),
\* getValue, setValue and setValid called with an id that is not in the
\* group return undefined, raise nothing, leave every member as it was
\* and fire no notification.
C20_UnknownIdIsNoOp ==
    (status = "group" /\ lastOp \in {"getValue", "setValue", "setValid"}
        /\ ~ Has(group, lastArg.id)) =>
        /\ group.result = "undefined"
        /\ group.thrown = "none"
        /\ group.instances = group.before
        /\ \A k \in DOMAIN group.instances :
               group.instances[k].picker.fired = << >>

C20_Witness ==
    /\ status = "group"
    /\ lastOp = "setValid"
    /\ lastArg.id = "nope"
    /\ confirmButton = "enabled"
    /\ group.result = "undefined"
    /\ Cardinality(DOMAIN group.instances) = 2
    /\ \E k \in DOMAIN group.instances :
           group.instances[k].picker.totalMinutes = Num(600)

\* C21: once a change listener was registered through the group, a step or
\* toggle on one member invokes that listener exactly once, with that
\* member's total and toggle state, and invokes it for no other member.
C21_GroupListenerOnEveryMember ==
    (status = "group" /\ lastOp \in {"step", "toggle"}
        /\ Len(group.listened) = 1) =>
        \A k \in DOMAIN group.instances :
            LET m == group.instances[k].picker
            IN IF k = lastArg.id
               THEN /\ m.calls = group.listened
                    /\ Len(m.fired) >= 1
                    /\ m.fired[1].event = "change"
                    /\ m.fired[1].totalMinutes = m.totalMinutes
                    /\ m.fired[1].buttonActive = m.buttonActive
               ELSE m.calls = << >>

\* C22: after setValid(v) the bound element carries the class "invalid"
\* exactly when v is false, on pages with and without the confirm button,
\* and hour, minute and totalMinutes are what they were before the call.
C22_SetValidFlagsElement ==
    lastOp = "setValid" =>
        /\ invalid = ~ lastArg.isValid
        /\ hour = prev.hour
        /\ minute = prev.minute
        /\ totalMinutes = before.totalMinutes

\* C23: the pickers constructed on one page have pairwise different ids,
\* whatever indices the random generator returns.
C23_IdsAreDistinct ==
    \A i \in DOMAIN pageIds, j \in DOMAIN pageIds :
        i /= j => pageIds[i] /= pageIds[j]

\* C24: a click on a step button whose data names none of (hour, up),
\* (hour, down), (minute, up), (minute, down), be it well-formed or not,
\* changes nothing, triggers no notification and raises no exception.
C24_OtherDataIsNoOp ==
    lastOp = "data" =>
        /\ thrown = "none"
        /\ fired = << >>
        /\ calls = << >>
        /\ hour = prev.hour
        /\ minute = prev.minute
        /\ Snapshot(Cur) = before

\* C25: once a minute step button was clicked and no setValue followed,
\* minute is a multiple of the configured step, whatever text the element
\* had at construction.
C25_MinuteAlignedAfterStep ==
    (status = "constructed" /\ minuteStepped) =>
        (IsNum(minute) /\ minute.v % config.step = 0)

\* C26: whatever toggles and clicks happened, the picker has added at most
\* one click listener to the document, and the number of listeners it has
\* added never goes down (none is ever removed).
C26_OneObserverForGood ==
    /\ [](status = "constructed" => observers <= 1)
    /\ [][observers' >= observers]_vars

C26_Witness ==
    /\ lastOp = "toggle"
    /\ before.overlayDissmiss
    /\ PopupOpen(popupDisplay)
    /\ observers = 1

\* C27: right after a step, a toggle or setValue (revisions B and C, whose
\* change payload carries value), the element's text is the zero-padded
\* hour, a colon and the zero-padded minute, the two labels show these two
\* components, and the value of the change payload is that text.
C27_TextLabelsPayloadAgree ==
    (status = "constructed" /\ rev \in {"B", "C"}
        /\ lastOp \in {"step", "toggle", "setValue"}) =>
        /\ IsNatural(hour)
        /\ IsNatural(minute)
        /\ labelHour = TwoDigits(hour.v)
        /\ labelMinute = TwoDigits(minute.v)
        /\ inputValue = TwoDigits(hour.v) \o << ":" >> \o TwoDigits(minute.v)
        /\ Fired("change") = 1
        /\ \A i \in DOMAIN fired :
               fired[i].event = "change" => fired[i].value = inputValue

\* C28: when a recompute notifies change and one of the change listeners
\* throws, the listeners up to and including the first throwing one are
\* the only ones invoked, the exception surfaces, and hour, minute,
\* totalMinutes and the text are the new ones: setValue(t) has stored the
\* hour and minute of t, a step has moved the time, and total and text
\* are those of the hour and minute now stored.
C28_ThrowStopsLaterListeners ==
    (status = "constructed" /\ lastOp \in {"step", "toggle", "setValue"}
        /\ Fired("change") = 1
        /\ FirstThrowing(eventHandlers["change"]) > 0) =>
        /\ CalledFor("change")
               = SubSeq(eventHandlers["change"], 1,
                        FirstThrowing(eventHandlers["change"]))
        /\ thrown = "ListenerError"
        /\ lastOp = "setValue" =>
               /\ hour = Num(lastArg.t \div 60)
               /\ minute = Num(Rem(lastArg.t, 60))
        /\ (lastOp = "step" /\ InRange(prev.hour, prev.minute)) =>
               << hour, minute >> /= << prev.hour, prev.minute >>
        /\ totalMinutes = JsAdd(JsMul(hour, Num(60)), minute)
        /\ inputValue = labelHour \o << ":" >> \o labelMinute
        /\ labelHour = PadStart2(NumberToString(hour))
        /\ labelMinute = PadStart2(NumberToString(minute))

C28_Witness ==
    /\ rev = "B"
    /\ lastOp = "setValue"
    /\ lastArg.t = 870
    /\ eventHandlers["change"] = << "LX", "L1" >>
    /\ calls = << << "change", "LX" >> >>
    /\ thrown = "ListenerError"
    /\ totalMinutes = Num(870)
    /\ inputValue = << "1", "4", ":", "3", "0" >>

\* C29: after setValue(t), for every integer t explored, negative ones
\* and ones of a day or more included, the stored totalMinutes is t.
C29_SetValueStoresItsArgument ==
    (status = "constructed" /\ lastOp = "setValue") =>
        totalMinutes = Num(lastArg.t)

\* C30: between clicks at most one member of a page has its popup open: the
\* click that opens one popup closes every other popup that was open.
C30_AtMostOnePopupOpen ==
    status = "group" =>
        Cardinality({ k \in DOMAIN group.instances :
                        PopupOpen(group.instances[k].picker.popupDisplay) }) <= 1

C30_Witness ==
    /\ status = "group"
    /\ lastOp = "toggle"
    /\ Has(group, lastArg.id)
    /\ PopupOpen(group.instances[lastArg.id].picker.popupDisplay)
    /\ \E k \in DOMAIN group.instances \ {lastArg.id} :
           /\ PopupOpen(group.before[k].picker.popupDisplay)
           /\ ~ PopupOpen(group.instances[k].picker.popupDisplay)

\* C31: with a change listener that calls setValid registered, one step or
\* one setValue invokes that listener exactly once and triggers exactly one
\* change notification: setValid triggers none, so nothing re-enters.
C31_ValidatingListenerRunsOnce ==
    (status = "constructed" /\ lastOp \in {"step", "setValue"}
        /\ RegisteredFor("change") = << "LV" >>) =>
        /\ calls = << << "change", "LV" >> >>
        /\ Fired("change") = 1

\* C32: from an in-range state, a step followed by the opposite step of the
\* same field restores hour and minute: always for the hour, and for the
\* minute when the step divides 60 and the minute was a multiple of it.
C32_OppositeStepsCancel ==
    (lastOp = "step" /\ earlier.op = "step"
        /\ lastArg.type = earlier.type /\ lastArg.action /= earlier.action
        /\ InRange(earlier.hour, earlier.minute)
        /\ (lastArg.type = "hour"
               \/ (60 % config.step = 0 /\ earlier.minute.v % config.step = 0))) =>
        /\ hour = earlier.hour
        /\ minute = earlier.minute

C32_Witness ==
    /\ lastOp = "step"
    /\ config.step = 30
    /\ earlier = [op |-> "step", type |-> "minute", action |-> "down",
                  hour |-> Num(0), minute |-> Num(0)]
    /\ prev = [hour |-> Num(23), minute |-> Num(30)]
    /\ IsStep("minute", "up")
    /\ hour = Num(0)
    /\ minute = Num(0)

=============================================================================
